---- MODULE Spec2Model ----
(***************************************************************************)
(* fast-deep-diff: the Value model (src/diff.rs 14-110) and the DeepDiff   *)
(* comparison engine (src/diff.rs 112-256).                                *)
(*                                                                         *)
(* f64 payloads are modelled by their class, sign and magnitude.  Every    *)
(* finite magnitude of the model is a small integer, so subtraction and    *)
(* absolute value are exact in f64, and a quotient of two of them is never *)
(* within rounding distance of a tolerance of the model: the comparisons   *)
(* below are the ones the IEEE-754 operations of the source perform.       *)
(***************************************************************************)
EXTENDS Integers, Sequences, FiniteSets, TLC

VARIABLES ignore_order, float_tolerance, use_percent, v1, v2, v3, diffs, eq_r, cmp_r, hash_r, pc

vars == <<ignore_order, float_tolerance, use_percent, v1, v2, v3, diffs, eq_r, cmp_r, hash_r, pc>>

\* ------------------------------------------------------------------ bounds

\* Longest array of Floats of the input universe: from three elements on, an
\* array can hold a NaN between two Floats it is Equal to and that are not
\* Equal to each other.
MaxLen == 3

\* Int payloads of the input universe are 0..MaxInt.
MaxInt == 1

\* Finite Float payloads of the input universe are -MaxMag..MaxMag, both zeros
\* included.
MaxMag == 2

\* ---------------------------------------------------------------- f64

\* A finite f64: sign bit s and integer magnitude m (s = 1, m = 0 is -0.0).
Num(s, m) == [c |-> "num", s |-> s, m |-> m]

\* A NaN with mantissa payload m: distinct payloads are distinct bit patterns.
NaN(m) == [c |-> "nan", s |-> 0, m |-> m]

is_nan(f) == f.c = "nan"

\* The signed integer a finite f64 of the model stands for.
FVal(f) == IF f.s = 1 THEN 0 - f.m ELSE f.m

\* The finite f64 of a non-zero integer, and +0.0.
FOfInt(i) == IF i < 0 THEN Num(1, 0 - i) ELSE Num(0, i)

\* f64::to_bits: the bit pattern, injective on the model's floats.
to_bits(f) == f.c \o ":" \o ToString(f.s) \o ":" \o ToString(f.m)

\* f64 == (IEEE-754): NaN is equal to nothing, -0.0 == +0.0.
FEq(a, b) == ~is_nan(a) /\ ~is_nan(b) /\ FVal(a) = FVal(b)

\* f64 - f64: NaN if either operand is NaN; an exact zero is +0.0, except
\* that -0.0 - +0.0 is -0.0.
FSub(a, b) ==
    IF is_nan(a) THEN a
    ELSE IF is_nan(b) THEN b
    ELSE IF a.m = 0 /\ b.m = 0 /\ a.s = 1 /\ b.s = 0 THEN Num(1, 0)
    ELSE FOfInt(FVal(a) - FVal(b))

\* f64::abs: clears the sign bit (of a NaN too).
FAbs(a) == IF is_nan(a) THEN a ELSE Num(0, a.m)

\* f64::max: the other operand when one is NaN.
FMax(a, b) ==
    IF is_nan(a) THEN b
    ELSE IF is_nan(b) THEN a
    ELSE IF FVal(a) >= FVal(b) THEN a ELSE b

\* A tolerance is the finite non-negative f64 num/den.
Tol(n, d) == [num |-> n, den |-> d]

\* FLe with the comparison made strict.
FLe_strict(d, t) == ~is_nan(d) /\ FVal(d) * t.den < t.num

\* d <= tolerance, for an f64 d: false when d is NaN.
FLe(d, t) == ~is_nan(d) /\ FVal(d) * t.den <= t.num

\* d / max <= tolerance, for f64 d >= 0 and max >= 0: the quotient is NaN
\* when an operand is NaN or both are zero, +inf when only max is zero.
FDivLe(d, max, t) ==
    IF is_nan(d) \/ is_nan(max) THEN FALSE
    ELSE IF FVal(max) = 0 THEN FALSE
    ELSE FVal(d) * t.den <= t.num * FVal(max)

\* ---------------------------------------------------------------- Value

VInt(i) == [t |-> "Int", v |-> i]
VFloat(f) == [t |-> "Float", v |-> f]
VString(s) == [t |-> "String", v |-> s]
VBool(b) == [t |-> "Bool", v |-> b]
VArray(a) == [t |-> "Array", v |-> a]
\* A BTreeMap<String, Value> is a function from its key set to values.
VDict(d) == [t |-> "Dict", v |-> d]

\* The strings of the model in ascending byte order (str::cmp).
StrOrder == <<"a", "b", "x">>

StrRank(s) == CHOOSE i \in 1..Len(StrOrder) : StrOrder[i] = s

\* Ordering as the integer Rust gives it: Less = -1, Equal = 0, Greater = 1.
OrdOf(a, b) == IF a < b THEN -1 ELSE IF a > b THEN 1 ELSE 0

StrCmp(a, b) == OrdOf(StrRank(a), StrRank(b))

RECURSIVE SortedKeys(_)
\* The keys of a BTreeMap in iteration order: ascending.
SortedKeys(K) ==
    IF K = {} THEN <<>>
    ELSE LET k == CHOOSE x \in K : \A y \in K : StrRank(x) <= StrRank(y)
         IN <<k>> \o SortedKeys(K \ {k})

RECURSIVE ValueEq(_, _)
\* impl PartialEq for Value.
ValueEq(a, b) ==
    IF a.t # b.t THEN FALSE
    ELSE IF a.t = "Float" THEN
        (IF is_nan(a.v) /\ is_nan(b.v) THEN TRUE ELSE FEq(a.v, b.v))
    ELSE IF a.t = "Array" THEN
        /\ Len(a.v) = Len(b.v)
        /\ \A i \in 1..Len(a.v) : ValueEq(a.v[i], b.v[i])
    ELSE IF a.t = "Dict" THEN
        /\ DOMAIN a.v = DOMAIN b.v
        /\ \A k \in DOMAIN a.v : ValueEq(a.v[k], b.v[k])
    ELSE a.v = b.v

variant_order(x) ==
    CASE x.t = "Int" -> 1
      [] x.t = "Float" -> 2
      [] x.t = "String" -> 3
      [] x.t = "Bool" -> 4
      [] x.t = "Array" -> 5
      [] x.t = "Dict" -> 6

\* f64::partial_cmp(..).unwrap_or(Ordering::Equal).
FloatCmp(a, b) == IF is_nan(a) \/ is_nan(b) THEN 0 ELSE OrdOf(FVal(a), FVal(b))

BoolCmp(a, b) == OrdOf(IF a THEN 1 ELSE 0, IF b THEN 1 ELSE 0)

RECURSIVE ValueCmp(_, _)
RECURSIVE SeqCmp(_, _, _)
RECURSIVE MapCmp(_, _, _, _, _)

\* impl Ord for Value.
ValueCmp(a, b) ==
    IF a.t # b.t THEN OrdOf(variant_order(a), variant_order(b))
    ELSE CASE a.t = "Int" -> OrdOf(a.v, b.v)
           [] a.t = "Float" -> FloatCmp(a.v, b.v)
           [] a.t = "String" -> StrCmp(a.v, b.v)
           [] a.t = "Bool" -> BoolCmp(a.v, b.v)
           [] a.t = "Array" -> SeqCmp(a.v, b.v, 1)
           [] a.t = "Dict" ->
                MapCmp(a.v, b.v, SortedKeys(DOMAIN a.v), SortedKeys(DOMAIN b.v), 1)

\* Vec<Value>::cmp: lexicographic, a proper prefix is Less.
SeqCmp(a, b, i) ==
    IF i > Len(a) \/ i > Len(b) THEN OrdOf(Len(a), Len(b))
    ELSE LET c == ValueCmp(a[i], b[i])
         IN IF c # 0 THEN c ELSE SeqCmp(a, b, i + 1)

\* BTreeMap<String, Value>::cmp: lexicographic over the (key, value) entries
\* in key order; an entry compares by key, then by value.
MapCmp(a, b, ka, kb, i) ==
    IF i > Len(ka) \/ i > Len(kb) THEN OrdOf(Len(ka), Len(kb))
    ELSE LET ck == StrCmp(ka[i], kb[i])
             c == IF ck # 0 THEN ck ELSE ValueCmp(a[ka[i]], b[kb[i]])
         IN IF c # 0 THEN c ELSE MapCmp(a, b, ka, kb, i + 1)

RECURSIVE ValueHash(_)
RECURSIVE HashSeq(_, _)
RECURSIVE HashMap(_, _, _)

\* impl Hash for Value: the writes the hasher receives, in order.
ValueHash(x) ==
    CASE x.t = "Int" -> <<"u8:1", "i64:" \o ToString(x.v)>>
      [] x.t = "Float" -> <<"u8:2", "u64:" \o to_bits(x.v)>>
      [] x.t = "String" -> <<"u8:3", "str:" \o x.v, "u8:255">>
      [] x.t = "Bool" -> <<"u8:4", IF x.v THEN "u8:1" ELSE "u8:0">>
      [] x.t = "Array" -> <<"u8:5", "len:" \o ToString(Len(x.v))>> \o HashSeq(x.v, 1)
      [] x.t = "Dict" ->
           <<"u8:6", "len:" \o ToString(Cardinality(DOMAIN x.v))>>
               \o HashMap(x.v, SortedKeys(DOMAIN x.v), 1)

HashSeq(a, i) == IF i > Len(a) THEN <<>> ELSE ValueHash(a[i]) \o HashSeq(a, i + 1)

HashMap(d, ks, i) ==
    IF i > Len(ks) THEN <<>>
    ELSE <<"str:" \o ks[i], "u8:255">> \o ValueHash(d[ks[i]]) \o HashMap(d, ks, i + 1)

\* The comparison slice::sort sorts by: Ord::lt, which is cmp(..) == Less.
is_less(a, b) == ValueCmp(a, b) = -1

RECURSIVE Insert(_, _)
\* The tail x moves left past every element it is less than.
Insert(s, x) ==
    IF s = <<>> THEN <<x>>
    ELSE IF is_less(x, s[Len(s)])
         THEN Insert(SubSeq(s, 1, Len(s) - 1), x) \o <<s[Len(s)]>>
         ELSE s \o <<x>>

RECURSIVE SortPrefix(_, _)
SortPrefix(a, n) == IF n = 0 THEN <<>> ELSE Insert(SortPrefix(a, n - 1), a[n])

\* <[Value]>::sort. A slice as short as the model's is sorted by insertion
\* from the left, whatever the comparison answers.
Sort(a) == SortPrefix(a, Len(a))

\* ----------------------------------------------------------------- Diff

Added(path, value) == [tag |-> "Added", path |-> path, v |-> <<value>>]
Removed(path, value) == [tag |-> "Removed", path |-> path, v |-> <<value>>]
Changed(path, old, new) == [tag |-> "Changed", path |-> path, v |-> <<old, new>>]

\* ------------------------------------------------------------- DeepDiff

\* Option<f64>.
None == [some |-> FALSE, num |-> 0, den |-> 1]
Some(t) == [some |-> TRUE, num |-> t.num, den |-> t.den]

\* fn values_equal(&self, v1, v2).
values_equal(a, b) ==
    IF a.t = "Float" /\ b.t = "Float" THEN
        IF float_tolerance.some THEN
            LET diff == FAbs(FSub(a.v, b.v))
            IN IF use_percent
               THEN LET max == FMax(FAbs(a.v), FAbs(b.v))
                    IN FDivLe(diff, max, float_tolerance)
               ELSE FLe(diff, float_tolerance)
        ELSE FEq(a.v, b.v)
    ELSE ValueEq(a, b)

\* The path of a dict entry: key, or format!("{}.{}", path, key).
key_path(path, key) == IF path = "" THEN key ELSE path \o "." \o key

\* index_path counting the elements from 1.
index_path_from_one(path, i) ==
    IF ignore_order THEN path ELSE path \o "[" \o ToString(i + 1) \o "]"

\* The path of an array element: path, or format!("{}[{}]", path, i).
index_path(path, i) ==
    IF ignore_order THEN path ELSE path \o "[" \o ToString(i) \o "]"

RECURSIVE compare_recursive(_, _, _)
RECURSIVE dict1_loop(_, _, _, _, _)
RECURSIVE array_loop(_, _, _, _)

RECURSIVE dict2_loop_every_key(_, _, _, _, _)
\* dict2_loop without the contains_key test.
dict2_loop_every_key(dict1, dict2, path, ks, n) ==
    IF n > Len(ks) THEN <<>>
    ELSE <<Added(key_path(path, ks[n]), dict2[ks[n]])>>
         \o dict2_loop_every_key(dict1, dict2, path, ks, n + 1)

RECURSIVE dict2_loop(_, _, _, _, _)
\* The second loop of compare_dicts: the keys of dict2 that dict1 lacks.
dict2_loop(dict1, dict2, path, ks, n) ==
    IF n > Len(ks) THEN <<>>
    ELSE (IF ks[n] \notin DOMAIN dict1
          THEN <<Added(key_path(path, ks[n]), dict2[ks[n]])>>
          ELSE <<>>)
         \o dict2_loop(dict1, dict2, path, ks, n + 1)

\* The first loop of compare_dicts: every key of dict1, ascending.
dict1_loop(dict1, dict2, path, ks, n) ==
    IF n > Len(ks) THEN <<>>
    ELSE (IF ks[n] \in DOMAIN dict2
          THEN compare_recursive(dict1[ks[n]], dict2[ks[n]], key_path(path, ks[n]))
          ELSE <<Removed(key_path(path, ks[n]), dict1[ks[n]])>>)
         \o dict1_loop(dict1, dict2, path, ks, n + 1)

\* compare_dicts with its two loops in the other order.
compare_dicts_added_first(dict1, dict2, path) ==
    dict2_loop(dict1, dict2, path, SortedKeys(DOMAIN dict2), 1)
        \o dict1_loop(dict1, dict2, path, SortedKeys(DOMAIN dict1), 1)

\* fn compare_dicts(&self, dict1, dict2, path).
compare_dicts(dict1, dict2, path) ==
    dict1_loop(dict1, dict2, path, SortedKeys(DOMAIN dict1), 1)
        \o dict2_loop(dict1, dict2, path, SortedKeys(DOMAIN dict2), 1)

\* The loop of compare_arrays_ordered from index i (0-based) on.
array_loop(arr1, arr2, path, i) ==
    IF i >= Len(arr1) /\ i >= Len(arr2) THEN <<>>
    ELSE (IF i < Len(arr1) /\ i < Len(arr2)
          THEN compare_recursive(arr1[i + 1], arr2[i + 1], index_path(path, i))
          ELSE IF i < Len(arr1)
          THEN <<Removed(index_path(path, i), arr1[i + 1])>>
          ELSE <<Added(index_path(path, i), arr2[i + 1])>>)
         \o array_loop(arr1, arr2, path, i + 1)

\* fn compare_arrays_ordered(&self, arr1, arr2, path).
compare_arrays_ordered(arr1, arr2, path) == array_loop(arr1, arr2, path, 0)

\* compare_arrays_unordered without the two sorts.
compare_arrays_unsorted(arr1, arr2, path) == compare_arrays_ordered(arr1, arr2, path)

\* fn compare_arrays_unordered(&self, arr1, arr2, path).
compare_arrays_unordered(arr1, arr2, path) ==
    LET sorted1 == Sort(arr1)
        sorted2 == Sort(arr2)
    IN compare_arrays_ordered(sorted1, sorted2, path)

\* fn compare_arrays(&self, arr1, arr2, path).
compare_arrays(arr1, arr2, path) ==
    IF ignore_order
    THEN compare_arrays_unordered(arr1, arr2, path)
    ELSE compare_arrays_ordered(arr1, arr2, path)

\* fn compare_recursive(&self, v1, v2, path).
compare_recursive(a, b, path) ==
    IF a.t = "Dict" /\ b.t = "Dict" THEN compare_dicts(a.v, b.v, path)
    ELSE IF a.t = "Array" /\ b.t = "Array" THEN compare_arrays(a.v, b.v, path)
    ELSE IF values_equal(a, b) THEN <<>>
    ELSE <<Changed(path, a, b)>>

\* pub fn compare(&self, v1, v2).
compare(a, b) == compare_recursive(a, b, "")

\* ------------------------------------------------------- input universe

SeqsUpTo(S, n) == UNION {[1..k -> S] : k \in 0..n}

\* Every map from a subset of the keys K into S.
MapsInto(K, S) == UNION {[D -> S] : D \in SUBSET K}

IntVals == {VInt(i) : i \in 0..MaxInt}

FloatVals ==
    {VFloat(Num(s, m)) : s \in {0, 1}, m \in 0..MaxMag}
        \cup {VFloat(NaN(1)), VFloat(NaN(2))}

Leaves == IntVals \cup FloatVals \cup {VString("x"), VBool(FALSE), VBool(TRUE)}

\* Arrays of leaves: of Floats, a NaN among them, and of mixed variants.
FlatArrays ==
    {VArray(s) : s \in SeqsUpTo({VFloat(Num(0, 1)), VFloat(Num(0, 2)), VFloat(NaN(1))}, MaxLen)}
        \cup {VArray(s) : s \in SeqsUpTo({VInt(0), VInt(1), VBool(TRUE)}, 2)}
        \cup {VArray(<<VInt(1), VFloat(Num(0, 1))>>), VArray(<<VFloat(Num(0, 1)), VInt(1)>>)}

\* Dicts of leaves.
FlatDicts == {VDict(d) : d \in MapsInto({"a", "b", "x"}, {VInt(0), VFloat(NaN(1))})}

InnerArrays == {VArray(<<VInt(0), VInt(1)>>), VArray(<<VInt(1), VInt(0)>>), VArray(<<VInt(1)>>)}

InnerDicts == {VDict([k \in {"a"} |-> VInt(0)]), VDict([k \in {"a"} |-> VInt(1)]),
               VDict([k \in {"b"} |-> VInt(0)])}

\* Collections of collections.
Nested ==
    {VArray(<<x, y>>) : x, y \in InnerArrays}
        \cup {VArray(<<x, y>>) : x, y \in InnerDicts}
        \cup {VDict([k \in {"a"} |-> x]) : x \in InnerArrays \cup InnerDicts}
        \cup {VDict([k \in {"a", "b"} |-> IF k = "a" THEN x ELSE VFloat(Num(0, 2))]) :
                x \in InnerArrays}

\* The values a comparison is run on.
Values == Leaves \cup FlatArrays \cup FlatDicts \cup Nested

\* The tolerances an engine is configured with.
Tolerances == {Tol(1, 2), Tol(1, 1)}

\* The values the Value operations are run on.
SmallValues ==
    FloatVals \cup {VInt(0), VBool(TRUE)}
        \cup {VArray(<<x>>) : x \in {VFloat(Num(0, 0)), VFloat(Num(1, 0)), VFloat(NaN(1)), VFloat(NaN(2))}}
        \cup {VDict([k \in {"a"} |-> x]) : x \in {VFloat(Num(0, 1)), VFloat(NaN(1))}}

\* ------------------------------------------------------------ the engine

\* DeepDiff::new(), and the two trees a caller holds.
Init ==
    /\ ignore_order = FALSE
    /\ float_tolerance = None
    /\ use_percent = FALSE
    /\ v1 \in Values
    /\ v2 \in Values
    /\ v3 = VInt(0)
    /\ diffs = <<>>
    /\ eq_r = <<>>
    /\ cmp_r = <<>>
    /\ hash_r = <<>>
    /\ pc = "built"

\* pub fn ignore_order(mut self, value: bool) -> Self. The builder methods
\* take the engine by value: its configuration is complete before the
\* comparisons that borrow it.
IgnoreOrder(value) ==
    /\ pc = "built"
    /\ ignore_order' = value
    /\ UNCHANGED <<float_tolerance, use_percent, v1, v2, v3, diffs, eq_r, cmp_r, hash_r, pc>>

\* pub fn float_tolerance(mut self, value: f64, use_percent: bool) -> Self.
FloatTolerance(value, percent) ==
    /\ pc = "built"
    /\ float_tolerance' = Some(value)
    /\ use_percent' = percent
    /\ UNCHANGED <<ignore_order, v1, v2, v3, diffs, eq_r, cmp_r, hash_r, pc>>

\* pub fn compare(&self, v1: &Value, v2: &Value) -> Vec<Diff>.
Compare ==
    /\ diffs' = compare(v1, v2)
    /\ pc' = "compared"
    /\ UNCHANGED <<ignore_order, float_tolerance, use_percent, v1, v2, v3, eq_r, cmp_r, hash_r>>

Next ==
    \/ \E value \in BOOLEAN : IgnoreOrder(value)
    \/ \E value \in Tolerances, percent \in BOOLEAN : FloatTolerance(value, percent)
    \/ Compare

Spec == Init /\ [][Next]_vars

\* --------------------------------------------------- the Value operations

\* Three values, and an engine left as constructed.
InitValue ==
    /\ ignore_order = FALSE
    /\ float_tolerance = None
    /\ use_percent = FALSE
    /\ v1 \in SmallValues
    /\ v2 \in SmallValues
    /\ v3 \in SmallValues
    /\ diffs = <<>>
    /\ eq_r = <<>>
    /\ cmp_r = <<>>
    /\ hash_r = <<>>
    /\ pc = "built"

\* Value::eq on each pair: (v1, v2), (v2, v3), (v1, v3).
Eq ==
    /\ eq_r = <<>>
    /\ eq_r' = <<ValueEq(v1, v2), ValueEq(v2, v3), ValueEq(v1, v3)>>
    /\ UNCHANGED <<ignore_order, float_tolerance, use_percent, v1, v2, v3, diffs, cmp_r, hash_r, pc>>

\* Value::cmp on (v1, v2), (v2, v3), (v1, v3) and (v2, v1).
Cmp ==
    /\ cmp_r = <<>>
    /\ cmp_r' = <<ValueCmp(v1, v2), ValueCmp(v2, v3), ValueCmp(v1, v3), ValueCmp(v2, v1)>>
    /\ UNCHANGED <<ignore_order, float_tolerance, use_percent, v1, v2, v3, diffs, eq_r, hash_r, pc>>

\* Value::hash of v1 and of v2, each into a fresh hasher.
Hash ==
    /\ hash_r = <<>>
    /\ hash_r' = <<ValueHash(v1), ValueHash(v2)>>
    /\ UNCHANGED <<ignore_order, float_tolerance, use_percent, v1, v2, v3, diffs, eq_r, cmp_r, pc>>

NextValue == Eq \/ Cmp \/ Hash

SpecValue == InitValue /\ [][NextValue]_vars

\* ------------------------------------------------------------ properties

\* A comparison has returned: diffs is compare(v1, v2) under the configuration.
Done == pc = "compared"

IsDict(x) == x.t = "Dict"
IsArray(x) == x.t = "Array"
IsFloat(x) == x.t = "Float"

\* The two values are handled by the leaf rule of the comparison.
LeafPair(x, y) == ~(IsDict(x) /\ IsDict(y)) /\ ~(IsArray(x) /\ IsArray(y))

HasPrefix(s, pre) == Len(s) >= Len(pre) /\ SubSeq(s, 1, Len(pre)) = pre

\* The positions of the records reported at or below a path.
Under(out, path) == {i \in DOMAIN out : HasPrefix(out[i].path, path)}

\* The records reported at or below a path, in output order.
RecordsUnder(out, path) ==
    LET Test(r) == HasPrefix(r.path, path) IN SelectSeq(out, Test)

Count(out, r) == Cardinality({i \in DOMAIN out : out[i] = r})

Range(out) == {out[i] : i \in DOMAIN out}

RECURSIVE HasNaN(_)
HasNaN(x) ==
    IF IsFloat(x) THEN is_nan(x.v)
    ELSE IF IsArray(x) \/ IsDict(x) THEN \E i \in DOMAIN x.v : HasNaN(x.v[i])
    ELSE FALSE

RECURSIVE Orders(_)
\* Every sequence that holds each element of S once.
Orders(S) ==
    IF S = {} THEN {<<>>}
    ELSE UNION {{<<x>> \o f : f \in Orders(S \ {x})} : x \in S}

\* The permutations of 1..n.
Perms(n) == Orders(1..n)

\* C1: compare(v, v) is the empty list, for every value and configuration.
C1_Idempotence == (Done /\ v1 = v2) => diffs = <<>>

\* The record compare(b, a) holds for a record of compare(a, b).
Dual(r) ==
    CASE r.tag = "Removed" -> Added(r.path, r.v[1])
      [] r.tag = "Added" -> Removed(r.path, r.v[1])
      [] r.tag = "Changed" -> Changed(r.path, r.v[2], r.v[1])

\* C2: the records of compare(v2, v1) are the duals of the records of
\* compare(v1, v2), one for one: Removed and Added change places, Changed
\* swaps its two values.
C2_Duality ==
    Done =>
        LET back == compare(v2, v1)
        IN /\ Len(back) = Len(diffs)
           /\ \A r \in Range(diffs) : Count(back, Dual(r)) = Count(diffs, r)

C2_Witness ==
    /\ Done
    /\ \E i, j, k \in DOMAIN diffs :
          diffs[i].tag = "Removed" /\ diffs[j].tag = "Added" /\ diffs[k].tag = "Changed"

\* The only position of out reported at or below a path.
At(out, path) == CHOOSE i \in DOMAIN out : HasPrefix(out[i].path, path)

\* One dict level: dict1 and dict2 were compared at path, and out is a list
\* holding what that comparison emitted.
DictLevel(dict1, dict2, path, out) ==
    LET gone == DOMAIN dict1 \ DOMAIN dict2
        new == DOMAIN dict2 \ DOMAIN dict1
        P(k) == IF path = "" THEN k ELSE path \o "." \o k
    IN /\ \A k \in gone :
            /\ Cardinality(Under(out, P(k))) = 1
            /\ out[At(out, P(k))] = Removed(P(k), dict1[k])
       /\ \A k \in new :
            /\ Cardinality(Under(out, P(k))) = 1
            /\ out[At(out, P(k))] = Added(P(k), dict2[k])
       /\ \A k \in gone, l \in new : At(out, P(k)) < At(out, P(l))
       /\ \A k, l \in gone : StrRank(k) < StrRank(l) => At(out, P(k)) < At(out, P(l))
       /\ \A k, l \in new : StrRank(k) < StrRank(l) => At(out, P(k)) < At(out, P(l))

\* The keys under which both values hold a dict.
DictKeys(x, y) ==
    {k \in DOMAIN x.v \cap DOMAIN y.v : IsDict(x.v[k]) /\ IsDict(y.v[k])}

\* C3: at a dict level (the root, and a dict under a key of the root) a key of
\* the first dict alone gives one Removed of the whole value and a key of the
\* second alone one Added of the whole value, nothing is reported below such a
\* key, every Removed of the level precedes every Added of it, and each group
\* is in ascending key order.
C3_DictLevelOrder ==
    (Done /\ IsDict(v1) /\ IsDict(v2)) =>
        /\ DictLevel(v1.v, v2.v, "", diffs)
        /\ \A k \in DictKeys(v1, v2) : DictLevel(v1.v[k].v, v2.v[k].v, k, diffs)

\* Two keys removed and one added at the root.
C3_Witness ==
    /\ Done /\ IsDict(v1) /\ IsDict(v2)
    /\ Cardinality(DOMAIN v1.v \ DOMAIN v2.v) = 2
    /\ Cardinality(DOMAIN v2.v \ DOMAIN v1.v) = 1
    /\ Len(diffs) = 3

\* One array level of the positional walk: arr1 and arr2 were compared at
\* path, and out is a list holding what that comparison emitted.
ArrayLevel(arr1, arr2, path, out) ==
    LET P(i) == path \o "[" \o ToString(i) \o "]"
        both == 0..(IF Len(arr1) < Len(arr2) THEN Len(arr1) ELSE Len(arr2)) - 1
        all == 0..(IF Len(arr1) < Len(arr2) THEN Len(arr2) ELSE Len(arr1)) - 1
    IN /\ \A i \in both :
            RecordsUnder(out, P(i)) = compare_recursive(arr1[i + 1], arr2[i + 1], P(i))
       /\ \A i \in all \ both :
            RecordsUnder(out, P(i)) =
                IF i < Len(arr1) THEN <<Removed(P(i), arr1[i + 1])>>
                ELSE <<Added(P(i), arr2[i + 1])>>
       /\ \A i, j \in all :
            i < j => \A m \in Under(out, P(i)), n \in Under(out, P(j)) : m < n
       /\ Cardinality({i \in all \ both : Under(out, P(i)) # {} /\ out[At(out, P(i))].tag = "Removed"})
            = (IF Len(arr1) > Len(arr2) THEN Len(arr1) - Len(arr2) ELSE 0)
       /\ Cardinality({i \in all \ both : Under(out, P(i)) # {} /\ out[At(out, P(i))].tag = "Added"})
            = (IF Len(arr2) > Len(arr1) THEN Len(arr2) - Len(arr1) ELSE 0)

\* The keys under which both values hold an array.
ArrayKeys(x, y) ==
    {k \in DOMAIN x.v \cap DOMAIN y.v : IsArray(x.v[k]) /\ IsArray(y.v[k])}

\* C4: with ignore_order = false an array level (the root, and an array under
\* a key of a root dict) is walked by position: what is reported at or below
\* path[i] is the comparison of the two elements when both arrays have index
\* i, one Removed of arr1[i] when only the first has it and one Added of
\* arr2[i] when only the second has it, in ascending order of i; the level
\* has max(0, len1 - len2) Removed and max(0, len2 - len1) Added records.
C4_OrderedPositional ==
    (Done /\ ~ignore_order) =>
        /\ (IsArray(v1) /\ IsArray(v2)) =>
              /\ ArrayLevel(v1.v, v2.v, "", diffs)
              /\ Len(diffs) = Cardinality(UNION {Under(diffs, "[" \o ToString(i) \o "]") :
                                                    i \in 0..(Len(v1.v) + Len(v2.v))})
        /\ (IsDict(v1) /\ IsDict(v2)) =>
              \A k \in ArrayKeys(v1, v2) : ArrayLevel(v1.v[k].v, v2.v[k].v, k, diffs)

\* An index of both arrays that differs, then an index of one array alone.
C4_Witness ==
    /\ Done /\ ~ignore_order /\ IsArray(v1) /\ IsArray(v2)
    /\ Len(v1.v) # Len(v2.v)
    /\ Len(diffs) >= 2
    /\ diffs[1].tag = "Changed"
    /\ diffs[Len(diffs)].tag \in {"Removed", "Added"}

\* The arrays that hold the elements of arr in another order.
Reorderings(arr) == {[i \in 1..Len(arr) |-> arr[f[i]]] : f \in Perms(Len(arr))}

\* The copies of arr in ascending order of Value::cmp: no element is Greater
\* than the next.
SortedCopies(arr) ==
    {s \in Reorderings(arr) : \A i \in 1..(Len(s) - 1) : ValueCmp(s[i], s[i + 1]) # 1}

RECURSIVE Walk(_, _, _, _)
\* The positional walk of two arrays from index i (1-based), every element
\* reported at the parent path itself.
Walk(s1, s2, path, i) ==
    IF i > Len(s1) /\ i > Len(s2) THEN <<>>
    ELSE (IF i <= Len(s1) /\ i <= Len(s2) THEN compare_recursive(s1[i], s2[i], path)
          ELSE IF i <= Len(s1) THEN <<Removed(path, s1[i])>>
          ELSE <<Added(path, s2[i])>>)
         \o Walk(s1, s2, path, i + 1)

\* One array level of the order-insensitive comparison.
UnorderedLevel(arr1, arr2, path, out) ==
    \E s1 \in SortedCopies(arr1) : \E s2 \in SortedCopies(arr2) :
        out = Walk(s1, s2, path, 1)

\* arr2 holds the elements of arr1 in another order.
Permutation(arr1, arr2) == Len(arr1) = Len(arr2) /\ arr2 \in Reorderings(arr1)

\* C5: with ignore_order = true an array level (the root, and an array under a
\* key of a root dict) is the positional walk of ascending-sorted copies of
\* the two arrays with every element reported at the parent path, no index
\* added; so a permutation of a NaN-free array compares empty without a float
\* tolerance; and the comparison leaves its two inputs as they were.
C5_Unordered ==
    /\ [](( Done /\ ignore_order /\ IsArray(v1) /\ IsArray(v2)) =>
            /\ UnorderedLevel(v1.v, v2.v, "", diffs)
            /\ (\A i \in DOMAIN v1.v : ~IsArray(v1.v[i]) /\ ~IsDict(v1.v[i]))
                 /\ (\A i \in DOMAIN v2.v : ~IsArray(v2.v[i]) /\ ~IsDict(v2.v[i]))
                 => \A r \in Range(diffs) : r.path = ""
            /\ (Permutation(v1.v, v2.v) /\ ~HasNaN(v1) /\ ~float_tolerance.some)
                 => diffs = <<>>)
    /\ [](( Done /\ ignore_order /\ IsDict(v1) /\ IsDict(v2)) =>
            \A k \in ArrayKeys(v1, v2) :
                UnorderedLevel(v1.v[k].v, v2.v[k].v, k, RecordsUnder(diffs, k)))
    /\ [][v1' = v1 /\ v2' = v2]_vars

\* Two unsorted arrays of different elements were compared with order ignored.
C5_Witness ==
    /\ Done /\ ignore_order /\ IsArray(v1) /\ IsArray(v2)
    /\ v1.v # Sort(v1.v) /\ v2.v # Sort(v2.v)
    /\ ~Permutation(v1.v, v2.v)
    /\ Len(diffs) >= 2

Abs(i) == IF i < 0 THEN 0 - i ELSE i

Larger(i, j) == IF i < j THEN j ELSE i

\* |f1 - f2| <= t, or |f1 - f2| / max(|f1|, |f2|) <= t, as IEEE-754 decides
\* it: an undefined difference or quotient is not within any tolerance.
Within(f1, f2, t, percent) ==
    /\ ~is_nan(f1) /\ ~is_nan(f2)
    /\ IF percent
       THEN /\ Larger(Abs(FVal(f1)), Abs(FVal(f2))) # 0
            /\ Abs(FVal(f1) - FVal(f2)) * t.den
                 <= t.num * Larger(Abs(FVal(f1)), Abs(FVal(f2)))
       ELSE Abs(FVal(f1) - FVal(f2)) * t.den <= t.num

\* Value equality of two leaves that are not both Float.
SameLeaf(x, y) == x.t = y.t /\ ~IsArray(x) /\ ~IsDict(x) /\ x.v = y.v

\* What the leaf rule reports for x against y at path, under a tolerance.
LeafRule(x, y, path, out) ==
    IF IsFloat(x) /\ IsFloat(y)
    THEN out = IF Within(x.v, y.v, float_tolerance, use_percent)
               THEN <<>> ELSE <<Changed(path, x, y)>>
    ELSE out = IF SameLeaf(x, y) THEN <<>> ELSE <<Changed(path, x, y)>>

\* C6: with a float tolerance t configured, two Floats met at a path (the
\* root, a key of a root dict, or an index of a root array compared by
\* position) give no record when |f1 - f2| <= t
\* (absolute) or |f1 - f2| / max(|f1|, |f2|) <= t (percent), and one
\* Changed(path, f1, f2) otherwise; any other pair under the leaf rule is
\* compared by exact equality, and values of different variants always give
\* Changed.
C6_TolerantFloat ==
    (Done /\ float_tolerance.some) =>
        /\ LeafPair(v1, v2) => LeafRule(v1, v2, "", diffs)
        /\ (IsDict(v1) /\ IsDict(v2)) =>
              \A k \in DOMAIN v1.v \cap DOMAIN v2.v :
                  LeafPair(v1.v[k], v2.v[k])
                      => LeafRule(v1.v[k], v2.v[k], k, RecordsUnder(diffs, k))
        /\ (IsArray(v1) /\ IsArray(v2) /\ ~ignore_order) =>
              \A i \in DOMAIN v1.v \cap DOMAIN v2.v :
                  LET at == "[" \o ToString(i - 1) \o "]"
                  IN LeafPair(v1.v[i], v2.v[i])
                        => LeafRule(v1.v[i], v2.v[i], at, RecordsUnder(diffs, at))

\* Two different Floats exactly the tolerance apart: within it.
C6_Witness ==
    /\ Done /\ float_tolerance.some
    /\ IsFloat(v1) /\ IsFloat(v2)
    /\ ~is_nan(v1.v) /\ ~is_nan(v2.v)
    /\ Abs(FVal(v1.v) - FVal(v2.v)) * float_tolerance.den = float_tolerance.num
    /\ diffs = <<>>

\* C7: x == y implies that x and y feed a hasher the same writes.
C7_HashConsistent ==
    (eq_r # <<>> /\ hash_r # <<>> /\ eq_r[1]) => hash_r[1] = hash_r[2]

\* C8: Value::cmp is a total order that agrees with ==: cmp(y, x) is the
\* reverse of cmp(x, y); Less and Equal are transitive; cmp(x, y) = Equal
\* exactly when x == y; values of different variants compare by variant rank.
C8_TotalOrder ==
    (eq_r # <<>> /\ cmp_r # <<>>) =>
        /\ cmp_r[4] = 0 - cmp_r[1]
        /\ (cmp_r[1] = -1 /\ cmp_r[2] = -1) => cmp_r[3] = -1
        /\ (cmp_r[1] = 0 /\ cmp_r[2] = 0) => cmp_r[3] = 0
        /\ (cmp_r[1] = 0) <=> eq_r[1]
        /\ v1.t # v2.t => cmp_r[1] = OrdOf(variant_order(v1), variant_order(v2))

RECURSIVE Reordered(_, _)
\* y is x with the elements of arrays inside it, at any depth, reordered.
Reordered(x, y) ==
    IF x.t # y.t THEN FALSE
    ELSE IF IsArray(x) THEN
        /\ Len(x.v) = Len(y.v)
        /\ \E f \in Perms(Len(x.v)) : \A i \in 1..Len(x.v) : Reordered(x.v[i], y.v[f[i]])
    ELSE IF IsDict(x) THEN
        /\ DOMAIN x.v = DOMAIN y.v
        /\ \A k \in DOMAIN x.v : Reordered(x.v[k], y.v[k])
    ELSE x = y

\* C9: with ignore_order = true, no float tolerance and NaN-free values, a
\* value compares empty against any reordering of its arrays, nested arrays
\* included.
C9_NestedOrderInsensitive ==
    (Done /\ ignore_order /\ ~float_tolerance.some /\ ~HasNaN(v1) /\ Reordered(v1, v2))
        => diffs = <<>>

IsZero(x) == IsFloat(x) /\ ~is_nan(x.v) /\ x.v.m = 0

\* C10: under a percent tolerance two zero Floats give a Changed record
\* unless they are bit-identical, and then no record.
C10_PercentZero ==
    (Done /\ float_tolerance.some /\ use_percent /\ IsZero(v1) /\ IsZero(v2)) =>
        diffs = IF to_bits(v1.v) = to_bits(v2.v) THEN <<>> ELSE <<Changed("", v1, v2)>>
====
